---------------------------- MODULE Spec2Model ----------------------------
(***************************************************************************)
(* SpectrumMark.py: stamping one text line per page of a PDF.              *)
(*                                                                         *)
(* Representation.                                                         *)
(*  - A Python str is a sequence of code points (65 is "A", 0x4E2D is      *)
(*    "中"); comparing two one-character strings compares their code       *)
(*    points.                                                              *)
(*  - A Python float is an integer number of twips (1/20 point): 0.5 is    *)
(*    10, 60.0 is 1200.  The inputs drawn below are exact in twips, so     *)
(*    every sum, product and halving of the program is exact here.         *)
(*    Floating-point rounding is outside the model.                        *)
(*  - A colour component is a pair <<num, den>>, the rational num/den.     *)
(*  - A font is its advance table: code point -> advance in tenths of an   *)
(*    em.  Font.text_length(text, fontsize) of PyMuPDF is the sum of the   *)
(*    glyph advances of text times fontsize.                               *)
(***************************************************************************)
EXTENDS Integers, Sequences, FiniteSets, TLC

VARIABLES
    args,          \* the five string parameters of perform_insertion
    pc,            \* position inside perform_insertion; "done" once it has
                   \* returned, "raised" once an exception has left it
    insert_x, insert_y, font_size,   \* after float(): twips
    text_align,    \* after lower().strip() and the fallback
    color_black,   \* the colour triple handed to insert_text
    lines,         \* the stripped, non-blank lines of overlay_txt
    doc,           \* the opened document: its pages' rectangles, or NoDoc
    fonts,         \* [chinese |-> table, latin |-> table] once loaded
    i,             \* the page loop's index
    toc,           \* the bookmark list being built
    rows,          \* the rows decided so far: [page, text, x, y, of]
    placed,        \* every page.insert_text call so far, in order
    doc_toc,       \* what doc.set_toc received, or NoToc
    opens,         \* number of fitz.open calls
    saves,         \* number of doc.save calls
    log,           \* the messages passed to log_func, as tags
    call           \* one call of the three pure helpers (SpecFn)

vars == <<args, pc, insert_x, insert_y, font_size, text_align, color_black,
          lines, doc, fonts, i, toc, rows, placed, doc_toc, opens, saves,
          log, call>>

----------------------------------------------------------------------------
(* Bounds of the model *)

MaxLen == 3
MaxAllowed == 6
MaxPages == 4

----------------------------------------------------------------------------
(* Generic helpers *)

Pt(n) == 20 * n

Min(a, b) == IF a <= b THEN a ELSE b

Range(s) == {s[k] : k \in DOMAIN s}

RECURSIVE Concat(_)
Concat(ss) == IF ss = <<>> THEN <<>> ELSE Head(ss) \o Concat(Tail(ss))

\* Python's s[:n] and s[n:] for n >= 0
Take(s, n) == SubSeq(s, 1, Min(n, Len(s)))
Drop(s, n) == SubSeq(s, Min(n, Len(s)) + 1, Len(s))

SeqsUpTo(S, n) == UNION {[1..k -> S] : k \in 0..n}

----------------------------------------------------------------------------
(* Fonts: Font.text_length *)

\* Code points on both sides of each edge of the range test of is_chinese,
\* and one inside each class.
Alphabet == {65, 2047, 2048, 65535, 65536}

\* Advance tables of the two built-in fonts, tenths of an em.
FontFiles ==
    { [chinese |-> [c \in Alphabet |-> IF c = 65535 THEN 5 ELSE 10],
       latin   |-> [c \in Alphabet |-> CASE c = 65 -> 7
                                         [] c = 2047 -> 3
                                         [] OTHER -> 5]],
      [chinese |-> [c \in Alphabet |-> 10],
       latin   |-> [c \in Alphabet |-> IF c = 2047 THEN 0 ELSE 6]] }

RECURSIVE SumAdvance(_, _)
SumAdvance(font, text) ==
    IF text = <<>> THEN 0
    ELSE font[Head(text)] + SumAdvance(font, Tail(text))

\* font.text_length(text, fontsize=font_size), in twips
text_length(font, text, fontsize) == (SumAdvance(font, text) * fontsize) \div 10

----------------------------------------------------------------------------
(* The helper functions *)

WideLo == 2048
WideHi == 65535

\* The range test with its lower edge left out.
is_chinese_strict(char) == WideLo < char /\ char <= WideHi

\* Line 14
is_chinese(char) == WideLo <= char /\ char <= WideHi

\* The for loop of segment_text over text_line[1:], k the index of ch.
RECURSIVE segment_loop(_, _, _, _, _)
segment_loop(text_line, k, segments, current_seg, current_is_ch) ==
    IF k > Len(text_line)
    THEN Append(segments, <<current_seg, current_is_ch>>)
    ELSE LET ch == text_line[k] IN
         IF is_chinese(ch) = current_is_ch
         THEN segment_loop(text_line, k + 1, segments,
                           Append(current_seg, ch), current_is_ch)
         ELSE segment_loop(text_line, k + 1,
                           Append(segments, <<current_seg, current_is_ch>>),
                           <<ch>>, is_chinese(ch))

segment_text(text_line) ==
    IF text_line # <<>>
    THEN segment_loop(text_line, 2, <<>>, <<text_line[1]>>, is_chinese(text_line[1]))
    ELSE <<>>

char_adjust == -10

RECURSIVE letters_width(_, _, _, _)
letters_width(seg, latin_font, fontsize, adjust) ==
    IF seg = <<>> THEN 0
    ELSE (text_length(latin_font, <<Head(seg)>>, fontsize) + adjust)
         + letters_width(Tail(seg), latin_font, fontsize, adjust)

RECURSIVE segments_width(_, _, _, _, _)
segments_width(segments, chinese_font, latin_font, fontsize, adjust) ==
    IF segments = <<>> THEN 0
    ELSE LET seg == Head(segments)[1]
             seg_is_ch == Head(segments)[2]
         IN  (IF seg_is_ch
              THEN text_length(chinese_font, seg, fontsize)
              ELSE letters_width(seg, latin_font, fontsize, adjust))
             + segments_width(Tail(segments), chinese_font, latin_font,
                              fontsize, adjust)

compute_line_width(text_line, chinese_font, latin_font, fontsize, adjust) ==
    segments_width(segment_text(text_line), chinese_font, latin_font,
                   fontsize, adjust)

\* ch_width of split_text_line, lines 62-65
ch_width(ch, chinese_font, latin_font, fontsize, adjust) ==
    IF is_chinese(ch)
    THEN text_length(chinese_font, <<ch>>, fontsize)
    ELSE text_length(latin_font, <<ch>>, fontsize) + adjust

\* The scan with the comparison of line 66 strict.
RECURSIVE split_scan_strict(_, _, _, _, _, _, _, _)
split_scan_strict(text_line, allowed_width, chinese_font, latin_font, fontsize, adjust, k, cum_width) ==
    IF k > Len(text_line) THEN k - 1
    ELSE LET w == ch_width(text_line[k], chinese_font, latin_font, fontsize, adjust)
         IN  IF cum_width + w < allowed_width
             THEN split_scan_strict(text_line, allowed_width, chinese_font,
                                    latin_font, fontsize, adjust, k + 1,
                                    cum_width + w)
             ELSE k - 1

\* The scan of split_text_line from position k (1-based; Python's i is
\* k - 1): the value of split_index when the loop ends or breaks.
RECURSIVE split_scan(_, _, _, _, _, _, _, _)
split_scan(text_line, allowed_width, chinese_font, latin_font, fontsize, adjust, k, cum_width) ==
    IF k > Len(text_line) THEN k - 1
    ELSE LET w == ch_width(text_line[k], chinese_font, latin_font, fontsize, adjust)
         IN  IF cum_width + w <= allowed_width
             THEN split_scan(text_line, allowed_width, chinese_font, latin_font,
                             fontsize, adjust, k + 1, cum_width + w)
             ELSE k - 1

\* split_index without lines 71-72.
split_index_unforced(text_line, allowed_width, chinese_font, latin_font, fontsize, adjust) ==
    split_scan(text_line, allowed_width, chinese_font, latin_font,
               fontsize, adjust, 1, 0)

\* Lines 59-72: split_index as the slices of lines 73-74 use it.
split_index_of(text_line, allowed_width, chinese_font, latin_font, fontsize, adjust) ==
    LET split_index == split_scan(text_line, allowed_width, chinese_font,
                                  latin_font, fontsize, adjust, 1, 0)
    IN  IF split_index = 0 THEN 1 ELSE split_index

split_text_line(text_line, allowed_width, chinese_font, latin_font, fontsize, adjust) ==
    LET split_index == split_index_of(text_line, allowed_width, chinese_font,
                                      latin_font, fontsize, adjust)
    IN  <<Take(text_line, split_index), Drop(text_line, split_index)>>

----------------------------------------------------------------------------
(* str methods and float() *)

\* The ASCII white space str.strip() removes
Whitespace == {9, 10, 11, 12, 13, 32}

RECURSIVE lstrip(_)
lstrip(s) == IF s # <<>> /\ Head(s) \in Whitespace THEN lstrip(Tail(s)) ELSE s

RECURSIVE rstrip(_)
rstrip(s) ==
    IF s # <<>> /\ s[Len(s)] \in Whitespace
    THEN rstrip(SubSeq(s, 1, Len(s) - 1))
    ELSE s

strip(s) == rstrip(lstrip(s))

\* str.lower() on ASCII letters
lower(s) == [k \in DOMAIN s |-> IF s[k] \in 65..90 THEN s[k] + 32 ELSE s[k]]

\* s.split(","): the pieces between the commas, empty pieces kept
RECURSIVE split_loop(_, _, _)
split_loop(s, sep, piece) ==
    IF s = <<>> THEN <<piece>>
    ELSE IF Head(s) = sep
         THEN <<piece>> \o split_loop(Tail(s), sep, <<>>)
         ELSE split_loop(Tail(s), sep, Append(piece, Head(s)))

split(s, sep) == split_loop(s, sep, <<>>)

IsDigits(s) == \A k \in DOMAIN s : s[k] \in 48..57

RECURSIVE DigitsValue(_)
DigitsValue(s) ==
    IF s = <<>> THEN 0 ELSE 10 * DigitsValue(SubSeq(s, 1, Len(s) - 1)) + (s[Len(s)] - 48)

\* float(s) for the decimal literals [ws][+-]digits[.digits][ws] with at
\* most one fractional digit (which is what a coordinate, a size or a colour
\* component typed into the form looks like): [err |-> FALSE, val |-> twips],
\* and [err |-> TRUE, ...] where Python raises ValueError.  Any other string
\* drawn below is one Python rejects as well.
float(s) ==
    LET t      == strip(s)
        signed == t # <<>> /\ Head(t) \in {43, 45}
        sign   == IF t # <<>> /\ Head(t) = 45 THEN -1 ELSE 1
        body   == IF signed THEN Tail(t) ELSE t
        parts  == split(body, 46)
        whole  == parts[1]
        frac   == IF Len(parts) = 2 THEN parts[2] ELSE <<>>
    IN  IF /\ Len(parts) <= 2
           /\ IsDigits(whole) /\ IsDigits(frac)
           /\ Len(whole) + Len(frac) >= 1
           /\ Len(frac) <= 1
        THEN [err |-> FALSE,
              val |-> sign * (20 * DigitsValue(whole) + 2 * DigitsValue(frac))]
        ELSE [err |-> TRUE, val |-> 0]

----------------------------------------------------------------------------
(* Colour parsing, lines 102-113 *)

Black == << <<0, 1>>, <<0, 1>>, <<0, 1>> >>

RECURSIVE floats_of(_)
floats_of(pieces) ==
    IF pieces = <<>> THEN <<>>
    ELSE <<float(strip(Head(pieces)))>> \o floats_of(Tail(pieces))

\* c > 1, c in twips
above_one(c) == c > Pt(1)

\* The try block of the colour: err when the except branch runs, else the
\* value the try block gives color_black.
parse_color(color_str) ==
    LET color_values == floats_of(split(color_str, 44)) IN
    IF (\E k \in DOMAIN color_values : color_values[k].err) \/ Len(color_values) # 3
    THEN [err |-> TRUE, val |-> Black]
    ELSE [err |-> FALSE,
          val |-> IF \E k \in 1..3 : above_one(color_values[k].val)
                  THEN [k \in 1..3 |-> <<color_values[k].val, Pt(255)>>]
                  ELSE [k \in 1..3 |-> <<color_values[k].val, Pt(1)>>]]

----------------------------------------------------------------------------
(* The page loop's planning and placing, lines 148-275 *)

Left   == <<108, 101, 102, 116>>              \* "left"
Center == <<99, 101, 110, 116, 101, 114>>     \* "center"
Right  == <<114, 105, 103, 104, 116>>         \* "right"

\* text_align.strip(), the case kept
normalize_align_case_kept(s) == strip(s)

\* Line 97: text_align.lower().strip()
normalize_align(s) == strip(lower(s))

\* The chains with the right-aligned row not moved in by x.
start_x_no_margin(align, page_width, x, row_width) ==
    CASE align = Left   -> x
      [] align = Center -> (page_width - row_width) \div 2
      [] align = Right  -> page_width - row_width

\* Lines 168-176 and 240-245: the start x of a row of width row_width.
start_x(align, page_width, x, row_width) ==
    CASE align = Left   -> x
      [] align = Center -> (page_width - row_width) \div 2
      [] align = Right  -> page_width - x - row_width

\* The test with the line that fills the allowed width exactly split too.
needs_split_at_limit(line_width, allowed_width) == line_width >= allowed_width

\* Line 163
needs_split(line_width, allowed_width) == line_width > allowed_width

\* Lines 151-181 and 238-245: the rows of one page, <<[text, x, y]>>, or the
\* two rows of a split line.
plan_rows(text_line, rect, x, y, fontsize, align, chinese_font, latin_font) ==
    LET page_height == rect.height
        page_width  == rect.width
        adjusted_y  == page_height - y
        line_width  == compute_line_width(text_line, chinese_font, latin_font,
                                          fontsize, char_adjust)
        allowed_width == page_width - 2 * x
    IN  IF needs_split(line_width, allowed_width)
        THEN LET parts == split_text_line(text_line, allowed_width, chinese_font,
                                          latin_font, fontsize, char_adjust)
                 first_part  == parts[1]
                 second_part == parts[2]
                 first_line_width ==
                     compute_line_width(first_part, chinese_font, latin_font,
                                        fontsize, char_adjust)
                 second_line_width ==
                     compute_line_width(second_part, chinese_font, latin_font,
                                        fontsize, char_adjust)
                 first_line_y  == adjusted_y - fontsize - Pt(2)
                 second_line_y == adjusted_y
             IN  << [text |-> first_part,
                     x |-> start_x(align, page_width, x, first_line_width),
                     y |-> first_line_y],
                    [text |-> second_part,
                     x |-> start_x(align, page_width, x, second_line_width),
                     y |-> second_line_y] >>
        ELSE << [text |-> text_line,
                 x |-> start_x(align, page_width, x, line_width),
                 y |-> adjusted_y] >>

ChineseFontName == "china-s"
LatinFontName == "Times-Roman"

\* One page.insert_text call
InsertText(page, x, y, text, fontname, fontsize, color) ==
    [page |-> page, x |-> x, y |-> y, text |-> text, fontname |-> fontname,
     fontsize |-> fontsize, color |-> color]

\* The letters of a non-Chinese segment, one insert_text each, the cursor
\* advancing by the letter's width plus char_adjust.
RECURSIVE insert_letters(_, _, _, _, _, _, _)
insert_letters(seg, page, current_x, y, latin_font, fontsize, color) ==
    IF seg = <<>> THEN <<>>
    ELSE <<InsertText(page, current_x, y, <<Head(seg)>>, LatinFontName,
                      fontsize, color)>>
         \o insert_letters(Tail(seg), page,
                current_x + text_length(latin_font, <<Head(seg)>>, fontsize)
                          + char_adjust,
                y, latin_font, fontsize, color)

\* The loop over the segments of one row, from cursor current_x.
RECURSIVE insert_segments(_, _, _, _, _, _, _, _)
insert_segments(segments, page, current_x, y, chinese_font, latin_font, fontsize, color) ==
    IF segments = <<>> THEN <<>>
    ELSE LET seg == Head(segments)[1]
             seg_is_ch == Head(segments)[2]
         IN  IF seg_is_ch
             THEN <<InsertText(page, current_x, y, seg, ChineseFontName,
                               fontsize, color)>>
                  \o insert_segments(Tail(segments), page,
                         current_x + text_length(chinese_font, seg, fontsize),
                         y, chinese_font, latin_font, fontsize, color)
             ELSE insert_letters(seg, page, current_x, y, latin_font,
                                 fontsize, color)
                  \o insert_segments(Tail(segments), page,
                         current_x + letters_width(seg, latin_font, fontsize,
                                                   char_adjust),
                         y, chinese_font, latin_font, fontsize, color)

\* The insert_text calls of the rows of one page, row by row.
RECURSIVE insert_rows(_, _, _, _, _, _)
insert_rows(rs, page, chinese_font, latin_font, fontsize, color) ==
    IF rs = <<>> THEN <<>>
    ELSE insert_segments(segment_text(Head(rs).text), page, Head(rs).x,
                         Head(rs).y, chinese_font, latin_font, fontsize, color)
         \o insert_rows(Tail(rs), page, chinese_font, latin_font, fontsize, color)

----------------------------------------------------------------------------
(* Inputs *)

\* (insert_x, insert_y, font_size) as typed
NumberArgs ==
    { << <<54, 48>>, <<56>>, <<49, 50>> >>,             \* "60", "8", "12"
      << <<32, 54, 48, 32>>, <<56, 46, 53>>, <<49>> >>, \* " 60 ", "8.5", "1"
      << <<97, 98, 99>>, <<56>>, <<49, 50>> >>,         \* "abc", "8", "12"
      << <<54, 48>>, <<>>, <<49, 50>> >>,               \* "60", "", "12"
      << <<54, 48>>, <<56>>, <<49, 101>> >> }           \* "60", "8", "1e"

AlignArgs ==
    { Center, Left, Right,
      <<32, 82, 105, 103, 104, 116>>,                   \* " Right"
      <<76, 69, 70, 84, 9>>,                            \* "LEFT\t"
      <<106, 117, 115, 116, 105, 102, 121>> }           \* "justify"

ColorArgs ==
    { <<48, 44, 48, 44, 48>>,                           \* "0,0,0"
      <<50, 53, 53, 44, 48, 44, 48>>,                   \* "255,0,0"
      <<48, 46, 53, 44, 48, 46, 53, 44, 48, 46, 53>>,   \* "0.5,0.5,0.5"
      <<48, 46, 53, 44, 32, 50, 48, 48, 32, 44, 48>>,   \* "0.5, 200 ,0"
      <<51, 48, 48, 44, 48, 44, 48>>,                   \* "300,0,0"
      <<45, 49, 44, 48, 44, 48>>,                       \* "-1,0,0"
      <<49, 44, 50>>,                                   \* "1,2"
      <<114, 101, 100>> }                               \* "red"

Args ==
    { [insert_x |-> n[1], insert_y |-> n[2], font_size |-> n[3],
       color_str |-> c, text_align |-> a] :
      n \in NumberArgs, c \in ColorArgs, a \in AlignArgs }

\* Contents of overlay_txt, as the lines iterating the file yields
TextFiles ==
    { <<>>,
      << <<2048, 2047, 10>>, <<32, 10>>, <<32, 65, 32, 10>>, <<2047, 2047>> >>,
      << <<65, 2047, 2048, 10>>, <<2048, 10>>, <<10>>, <<65, 2048, 2047, 10>>,
         <<65536, 65535, 10>>, <<2047, 10>> >> }

\* Page rectangles in twips: with insert_x = 60pt they leave an allowed
\* width of 0.5pt, 6.2pt and 16pt.
PageRects ==
    { [width |-> 2410, height |-> 16840],
      [width |-> 2524, height |-> 16840],
      [width |-> 2720, height |-> 12000] }

\* Documents: up to MaxPages pages of one rectangle
Docs == { [k \in 1..n |-> r] : n \in 0..MaxPages, r \in PageRects }

NoDoc == [open |-> FALSE, pages |-> <<>>]
NoFonts == [chinese |-> <<>>, latin |-> <<>>]
NoToc == [set |-> FALSE, entries |-> <<>>]
NoCall == [pc |-> "none"]

----------------------------------------------------------------------------
(* perform_insertion *)

Init ==
    /\ args \in Args
    /\ pc = "numbers"
    /\ insert_x = 0 /\ insert_y = 0 /\ font_size = 0
    /\ text_align = <<>>
    /\ color_black = Black
    /\ lines = <<>>
    /\ doc = NoDoc
    /\ fonts = NoFonts
    /\ i = 0
    /\ toc = <<>>
    /\ rows = <<>>
    /\ placed = <<>>
    /\ doc_toc = NoToc
    /\ opens = 0
    /\ saves = 0
    /\ log = <<>>
    /\ call = NoCall

\* What a step that returns leaves behind
Return(tag) ==
    /\ pc' = "done"
    /\ log' = Append(log, tag)

\* A non-numeric field substitutes its default and the run goes on.
ParseNumbers_defaults ==
    /\ pc = "numbers"
    /\ LET fx == float(args.insert_x)
           fy == float(args.insert_y)
           fs == float(args.font_size)
       IN  /\ insert_x' = IF fx.err THEN Pt(60) ELSE fx.val
           /\ insert_y' = IF fy.err THEN Pt(8) ELSE fy.val
           /\ font_size' = IF fs.err THEN Pt(12) ELSE fs.val
           /\ pc' = "align"
           /\ log' = IF fx.err \/ fy.err \/ fs.err
                     THEN Append(log, "err_number") ELSE log
    /\ UNCHANGED <<args, text_align, color_black, lines, doc, fonts, i, toc,
                   rows, placed, doc_toc, opens, saves, call>>

\* Lines 89-95
ParseNumbers ==
    /\ pc = "numbers"
    /\ LET fx == float(args.insert_x)
           fy == float(args.insert_y)
           fs == float(args.font_size)
       IN  \/ /\ ~(fx.err \/ fy.err \/ fs.err)
              /\ insert_x' = fx.val
              /\ insert_y' = fy.val
              /\ font_size' = fs.val
              /\ pc' = "align"
              /\ log' = log
           \/ /\ fx.err \/ fy.err \/ fs.err
              \* float() of the fields before the failing one has been bound
              /\ insert_x' = IF fx.err THEN insert_x ELSE fx.val
              /\ insert_y' = IF fx.err \/ fy.err THEN insert_y ELSE fy.val
              /\ font_size' = font_size
              /\ Return("err_number")
    /\ UNCHANGED <<args, text_align, color_black, lines, doc, fonts, i, toc,
                   rows, placed, doc_toc, opens, saves, call>>

\* Lines 97-100
NormalizeAlign ==
    /\ pc = "align"
    /\ LET a == normalize_align(args.text_align) IN
       \/ /\ a \in {Left, Center, Right}
          /\ text_align' = a
          /\ log' = log
       \/ /\ a \notin {Left, Center, Right}
          /\ text_align' = Left
          /\ log' = Append(log, "warn_align")
    /\ pc' = "color"
    /\ UNCHANGED <<args, insert_x, insert_y, font_size, color_black, lines, doc,
                   fonts, i, toc, rows, placed, doc_toc, opens, saves, call>>

\* Lines 102-113
ParseColor ==
    /\ pc = "color"
    /\ LET c == parse_color(args.color_str) IN
       \/ /\ ~c.err
          /\ color_black' = c.val
          /\ log' = log
       \/ /\ c.err
          /\ color_black' = Black
          /\ log' = Append(log, "warn_color")
    /\ pc' = "exists"
    /\ UNCHANGED <<args, insert_x, insert_y, font_size, text_align, lines, doc,
                   fonts, i, toc, rows, placed, doc_toc, opens, saves, call>>

\* The missing file is reported and the run goes on to open the document.
CheckTextFile_no_return ==
    /\ pc = "exists"
    /\ \/ /\ pc' = "read"
          /\ log' = log
       \/ /\ pc' = "open"
          /\ log' = Append(log, "err_txt_missing")
    /\ UNCHANGED <<args, insert_x, insert_y, font_size, text_align, color_black,
                   lines, doc, fonts, i, toc, rows, placed, doc_toc, opens,
                   saves, call>>

\* Lines 115-117: os.path.exists(overlay_txt) is the file system's answer
CheckTextFile ==
    /\ pc = "exists"
    /\ \/ /\ pc' = "read"
          /\ log' = log
       \/ Return("err_txt_missing")
    /\ UNCHANGED <<args, insert_x, insert_y, font_size, text_align, color_black,
                   lines, doc, fonts, i, toc, rows, placed, doc_toc, opens,
                   saves, call>>

\* [line.strip() for line in f if line.strip()]
RECURSIVE read_lines(_)
read_lines(f) ==
    IF f = <<>> THEN <<>>
    ELSE (IF strip(Head(f)) # <<>> THEN <<strip(Head(f))>> ELSE <<>>)
         \o read_lines(Tail(f))

\* Lines 119-124
ReadTextFile ==
    /\ pc = "read"
    /\ \/ \E f \in TextFiles :
             /\ lines' = read_lines(f)
             /\ pc' = "open"
             /\ log' = log
       \/ /\ lines' = lines
          /\ Return("err_txt_read")
    /\ UNCHANGED <<args, insert_x, insert_y, font_size, text_align, color_black,
                   doc, fonts, i, toc, rows, placed, doc_toc, opens, saves, call>>

\* Lines 126-130
OpenDocument ==
    /\ pc = "open"
    /\ opens' = opens + 1
    /\ \/ \E d \in Docs :
             /\ doc' = [open |-> TRUE, pages |-> d]
             /\ pc' = "fonts"
             /\ log' = log
       \/ /\ doc' = doc
          /\ Return("err_pdf_open")
    /\ UNCHANGED <<args, insert_x, insert_y, font_size, text_align, color_black,
                   lines, fonts, i, toc, rows, placed, doc_toc, saves, call>>

\* Lines 132-146
LoadFonts ==
    /\ pc = "fonts"
    /\ \/ \E f \in FontFiles :
             /\ fonts' = f
             /\ pc' = "loop"
             /\ log' = log
       \/ /\ fonts' = fonts
          /\ Return("err_font")
       \/ \* fitz.Font(latin_font_name), line 140, is outside any try: its
          \* exception leaves perform_insertion with nothing logged
          /\ fonts' = fonts
          /\ pc' = "raised"
          /\ log' = log
    /\ i' = 0
    /\ toc' = <<>>
    /\ UNCHANGED <<args, insert_x, insert_y, font_size, text_align, color_black,
                   lines, doc, rows, placed, doc_toc, opens, saves, call>>

\* Line 145
count == Min(Len(lines), Len(doc.pages))

\* The bookmark carrying the 0-based page index.
toc_entry_zero_based(text_line, k) == <<1, text_line, k>>

\* Line 275, k the 0-based page index
toc_entry(text_line, k) == <<1, text_line, k + 1>>

\* Lines 148-275: one iteration of the page loop
StampPage ==
    /\ pc = "loop"
    /\ i < count
    /\ LET text_line == lines[i + 1]
           rect == doc.pages[i + 1]
           rs == plan_rows(text_line, rect, insert_x, insert_y, font_size,
                           text_align, fonts.chinese, fonts.latin)
       IN  /\ rows' = rows \o [k \in 1..Len(rs) |->
                                 [page |-> i, text |-> rs[k].text, x |-> rs[k].x,
                                  y |-> rs[k].y, of |-> Len(rs)]]
           /\ placed' = placed \o insert_rows(rs, i, fonts.chinese, fonts.latin,
                                              font_size, color_black)
           /\ toc' = Append(toc, toc_entry(text_line, i))
           /\ log' = log \o <<"page", IF Len(rs) = 2 THEN "two_rows" ELSE "one_row">>
    /\ i' = i + 1
    /\ UNCHANGED <<args, pc, insert_x, insert_y, font_size, text_align,
                   color_black, lines, doc, fonts, doc_toc, opens, saves, call>>

\* Lines 278-280, once the loop has run count times
SetToc ==
    /\ pc = "loop"
    /\ i >= count
    /\ doc_toc' = [set |-> TRUE, entries |-> toc]
    /\ log' = log \o [k \in 1..Len(toc) |-> "bookmark"]
    /\ pc' = "save"
    /\ UNCHANGED <<args, insert_x, insert_y, font_size, text_align, color_black,
                   lines, doc, fonts, i, toc, rows, placed, opens, saves, call>>

\* Lines 282-287: doc.save succeeds or raises, then doc.close()
SaveDocument ==
    /\ pc = "save"
    /\ saves' = saves + 1
    /\ \/ log' = Append(log, "saved")
       \/ log' = Append(log, "err_save")
    /\ doc' = [doc EXCEPT !.open = FALSE]
    /\ pc' = "done"
    /\ UNCHANGED <<args, insert_x, insert_y, font_size, text_align, color_black,
                   lines, fonts, i, toc, rows, placed, doc_toc, opens, call>>

Next ==
    \/ ParseNumbers
    \/ NormalizeAlign
    \/ ParseColor
    \/ CheckTextFile
    \/ ReadTextFile
    \/ OpenDocument
    \/ LoadFonts
    \/ StampPage
    \/ SetToc
    \/ SaveDocument

Spec == Init /\ [][Next]_vars

----------------------------------------------------------------------------
(* The three helpers called on their own: segment_text, compute_line_width *)
(* and split_text_line on every line of up to MaxLen characters.           *)

mainvars == <<args, pc, insert_x, insert_y, font_size, text_align, color_black,
              lines, doc, fonts, i, toc, rows, placed, doc_toc, opens, saves,
              log>>

Calls ==
    [pc : {"ready"},
     text_line : SeqsUpTo(Alphabet, MaxLen),
     allowed_width : {10 * k : k \in 0..MaxAllowed},
     font_size : {Pt(1), Pt(2)},
     char_adjust : {char_adjust, 0},
     fonts : FontFiles,
     segments : {<<>>},
     line_width : {0},
     parts : {<<>>}]

InitFn ==
    /\ call \in Calls
    /\ args = [insert_x |-> <<>>, insert_y |-> <<>>, font_size |-> <<>>,
               color_str |-> <<>>, text_align |-> <<>>]
    /\ pc = "idle"
    /\ insert_x = 0 /\ insert_y = 0 /\ font_size = 0
    /\ text_align = <<>>
    /\ color_black = Black
    /\ lines = <<>>
    /\ doc = NoDoc
    /\ fonts = NoFonts
    /\ i = 0
    /\ toc = <<>>
    /\ rows = <<>>
    /\ placed = <<>>
    /\ doc_toc = NoToc
    /\ opens = 0
    /\ saves = 0
    /\ log = <<>>

CallSegmentText ==
    /\ call.pc = "ready"
    /\ call' = [call EXCEPT !.pc = "segmented",
                            !.segments = segment_text(call.text_line)]
    /\ UNCHANGED mainvars

CallComputeLineWidth ==
    /\ call.pc = "segmented"
    /\ call' = [call EXCEPT !.pc = "measured",
                            !.line_width =
                                compute_line_width(call.text_line,
                                    call.fonts.chinese, call.fonts.latin,
                                    call.font_size, call.char_adjust)]
    /\ UNCHANGED mainvars

CallSplitTextLine ==
    /\ call.pc = "measured"
    /\ call' = [call EXCEPT !.pc = "split",
                            !.parts =
                                split_text_line(call.text_line,
                                    call.allowed_width, call.fonts.chinese,
                                    call.fonts.latin, call.font_size,
                                    call.char_adjust)]
    /\ UNCHANGED mainvars

NextFn ==
    \/ CallSegmentText
    \/ CallComputeLineWidth
    \/ CallSplitTextLine

SpecFn == InitFn /\ [][NextFn]_vars

----------------------------------------------------------------------------
(* Properties of the helpers (SpecFn) *)

\* The net width split_text_line adds for character k of the call's line
NetWidth(k) ==
    ch_width(call.text_line[k], call.fonts.chinese, call.fonts.latin,
             call.font_size, call.char_adjust)

RECURSIVE PrefixWidth(_)
PrefixWidth(n) == IF n = 0 THEN 0 ELSE PrefixWidth(n - 1) + NetWidth(n)

InWideRange(c) == c >= 2048 /\ c <= 65535

\* C1: segment_text(L) is the partition of L into its maximal runs of one
\* script class: the runs concatenate to L, none is empty, every character
\* of a run has the run's class (wide iff its code point is in
\* [0x0800, 0xFFFF]), adjacent runs differ in class, and the empty line
\* gives the empty list.
C1_Segmentation ==
    call.pc \in {"segmented", "measured", "split"} =>
        LET segs == call.segments IN
        /\ Concat([k \in DOMAIN segs |-> segs[k][1]]) = call.text_line
        /\ \A k \in DOMAIN segs :
              /\ segs[k][1] # <<>>
              /\ \A j \in DOMAIN segs[k][1] :
                    segs[k][2] = InWideRange(segs[k][1][j])
        /\ \A k \in 1..(Len(segs) - 1) : segs[k][2] # segs[k + 1][2]
        /\ (call.text_line = <<>> => segs = <<>>)

\* A line of three runs whose middle run is the boundary character 0x0800
C1_Witness ==
    /\ call.pc = "segmented"
    /\ Len(call.segments) = 3
    /\ call.segments[2] = <<<<2048>>, TRUE>>

PrefixIsMaximal ==
    LET n == Len(call.parts[1]) IN
    /\ PrefixWidth(n) <= call.allowed_width
    /\ \A m \in (n + 1)..Len(call.text_line) :
          PrefixWidth(m) > call.allowed_width

FirstFits == call.text_line # <<>> /\ NetWidth(1) <= call.allowed_width

\* C3 as claimed: whenever the first character fits, the prefix is the
\* longest prefix within allowed_width, whatever the sign of the widths.
C3_Original == (call.pc = "split" /\ FirstFits) => PrefixIsMaximal

\* C3: when the first character fits and no character of the line has a
\* negative net width, the prefix returned by split_text_line is the longest
\* prefix of the line whose accumulated per-character width is within
\* allowed_width.
C3_MaximalPrefix ==
    (/\ call.pc = "split"
     /\ FirstFits
     /\ \A k \in DOMAIN call.text_line : NetWidth(k) >= 0) => PrefixIsMaximal

\* A split after two characters, a third one left over, no negative width,
\* the two committed characters filling allowed_width exactly
C3_Witness ==
    /\ call.pc = "split"
    /\ FirstFits
    /\ \A k \in DOMAIN call.text_line : NetWidth(k) >= 0
    /\ Len(call.parts[1]) = 2
    /\ Len(call.parts[2]) = 1
    /\ PrefixWidth(2) = call.allowed_width

----------------------------------------------------------------------------
(* Properties of perform_insertion (Spec) *)

Last(s) == s[Len(s)]

\* The rows decided for page k (0-based), and the calls made on it
RowsOfPage(k) == SelectSeq(rows, LAMBDA r : r.page = k)
PlacedOnPage(k) == SelectSeq(placed, LAMBDA c : c.page = k)

\* measure of the spec: compute_line_width with the run's fonts and size
Measure(text) ==
    compute_line_width(text, fonts.chinese, fonts.latin, font_size, char_adjust)

AllowedWidth(k) == doc.pages[k + 1].width - 2 * insert_x

\* The net widths split_text_line sees on the line of page k
LineNetWidths(k) ==
    [j \in DOMAIN lines[k + 1] |->
        ch_width(lines[k + 1][j], fonts.chinese, fonts.latin, font_size,
                 char_adjust)]

\* The text the insert_text calls put on row r, left to right
TextPlacedOn(r) ==
    LET cs == SelectSeq(placed, LAMBDA c : c.page = r.page /\ c.y = r.y)
    IN  Concat([c \in DOMAIN cs |-> cs[c].text])

\* One row when the line fits, else the two rows of the split, at the
\* documented heights, each row placed with exactly its text
RowCountAndTexts(k) ==
    LET L == lines[k + 1]
        baseY == doc.pages[k + 1].height - insert_y
        rs == RowsOfPage(k)
    IN  IF Measure(L) <= AllowedWidth(k)
        THEN /\ Len(rs) = 1
             /\ rs[1].text = L
             /\ rs[1].y = baseY
             /\ rs[1].of = 1
             /\ TextPlacedOn(rs[1]) = L
        ELSE LET parts == split_text_line(L, AllowedWidth(k), fonts.chinese,
                                          fonts.latin, font_size, char_adjust)
             IN  /\ Len(rs) = 2
                 /\ rs[1].text = parts[1] /\ rs[1].y = baseY - font_size - Pt(2)
                 /\ rs[2].text = parts[2] /\ rs[2].y = baseY
                 /\ rs[1].of = 2 /\ rs[2].of = 2
                 /\ TextPlacedOn(rs[1]) = parts[1]
                 /\ TextPlacedOn(rs[2]) = parts[2]

C5_RowStartX ==
    \A n \in DOMAIN rows :
        LET r == rows[n]
            pageWidth == doc.pages[r.page + 1].width
            rowWidth == Measure(r.text)
        IN  /\ text_align = Left => r.x = insert_x
            /\ text_align = Center => 2 * r.x = pageWidth - rowWidth
            /\ text_align = Right => r.x = pageWidth - insert_x - rowWidth
            /\ text_align \in {Left, Center, Right}
            /\ r.text # <<>> =>
                  \E c \in DOMAIN placed :
                      /\ placed[c].page = r.page /\ placed[c].y = r.y
                      /\ placed[c].x = r.x
                      /\ placed[c].text[1] = r.text[1]

\* A right-aligned page of two rows of different widths
C5_Witness ==
    /\ text_align = Right
    /\ i >= 1
    /\ Len(RowsOfPage(0)) = 2
    /\ RowsOfPage(0)[1].x # RowsOfPage(0)[2].x
    /\ RowsOfPage(0)[2].text # <<>>

PageCount == IF Len(lines) <= Len(doc.pages) THEN Len(lines) ELSE Len(doc.pages)

\* C6: the loop stamps pages 0, 1, ... in order, line k on page k only, never
\* a page or a line from min(len(lines), pageCount) on; the bookmark list is
\* (1, lines[k], k+1) for the pages stamped so far, and what set_toc receives
\* is that list for all min(len(lines), pageCount) pages.
C6_PageMapping ==
    /\ i <= PageCount
    /\ toc = [k \in 1..i |-> <<1, lines[k], k>>]
    /\ \A c \in DOMAIN placed : placed[c].page \in 0..(i - 1)
    /\ \A c \in 1..(Len(placed) - 1) : placed[c].page <= placed[c + 1].page
    /\ \A k \in 0..(i - 1) :
          Concat([c \in DOMAIN PlacedOnPage(k) |-> PlacedOnPage(k)[c].text])
              = lines[k + 1]
    /\ doc_toc.set =>
          /\ i = PageCount
          /\ doc_toc.entries = [k \in 1..PageCount |-> <<1, lines[k], k>>]

\* Three lines, a four-page document, bookmarks handed over
C6_Witness ==
    /\ doc_toc.set
    /\ Len(lines) = 3
    /\ Len(doc.pages) = 4
    /\ Len(doc_toc.entries) = 3

\* C7: every colour triple used for a placement has its components in [0,1].
C7_ColorInUnitRange ==
    \A c \in DOMAIN placed :
        \A k \in 1..3 :
            /\ 0 <= placed[c].color[k][1]
            /\ placed[c].color[k][1] <= placed[c].color[k][2]

NumberError ==
    float(args.insert_x).err \/ float(args.insert_y).err
        \/ float(args.font_size).err

\* C8 as claimed: a non-numeric anchorX, anchorY or fontSize is replaced by
\* 60, 8 or 12 and the run goes on.
C8_Original ==
    pc # "numbers" =>
        /\ insert_x = IF float(args.insert_x).err THEN Pt(60)
                      ELSE float(args.insert_x).val
        /\ insert_y = IF float(args.insert_y).err THEN Pt(8)
                      ELSE float(args.insert_y).val
        /\ font_size = IF float(args.font_size).err THEN Pt(12)
                       ELSE float(args.font_size).val
        /\ ~(pc = "done" /\ Last(log) = "err_number")

\* C8: a non-numeric anchorX, anchorY or fontSize is reported and ends the
\* run before the text file is looked at, the document opened or any page
\* stamped; a malformed colour triple is reported, replaced by black and the
\* run goes on.
C8_ParseErrors ==
    /\ (NumberError /\ pc # "numbers") =>
          /\ pc = "done"
          /\ log = <<"err_number">>
          /\ opens = 0 /\ saves = 0 /\ placed = <<>> /\ ~doc_toc.set
    /\ (~NumberError /\ pc \notin {"numbers", "align"}) =>
          "err_number" \notin Range(log)
    /\ (parse_color(args.color_str).err /\ pc \notin {"numbers", "align", "color"}
        /\ ~NumberError) =>
          /\ color_black = Black
          /\ "warn_color" \in Range(log)
          /\ pc = "done" => Last(log) # "warn_color"
          /\ \A c \in DOMAIN placed : placed[c].color = Black

\* A run with the colour "1,2" that stamped pages in black and saved
C8_Witness ==
    /\ pc = "done"
    /\ args.color_str = <<49, 44, 50>>
    /\ "warn_color" \in Range(log)
    /\ "saved" \in Range(log)
    /\ placed # <<>>
    /\ \A c \in DOMAIN placed : placed[c].color = Black

\* C9: once the alignment has been looked at, an align value that is not
\* left, center or right after lower-casing and trimming is reported, the
\* rows all start at anchorX and the run goes on; a value that differs from a valid one by case or surrounding white
\* space is taken without a warning.
C9_AlignFallback ==
    (pc \notin {"numbers", "align"} /\ "err_number" \notin Range(log)) =>
        LET a == strip(lower(args.text_align)) IN
        /\ a \notin {Left, Center, Right} =>
              /\ text_align = Left
              /\ "warn_align" \in Range(log)
              /\ \A n \in DOMAIN rows : rows[n].x = insert_x
              /\ pc = "done" => Last(log) # "warn_align"
        /\ a \in {Left, Center, Right} =>
              /\ text_align = a
              /\ "warn_align" \notin Range(log)
        /\ args.text_align = <<106, 117, 115, 116, 105, 102, 121>> =>
              text_align = Left /\ "warn_align" \in Range(log)
        /\ args.text_align = <<32, 82, 105, 103, 104, 116>> =>
              text_align = Right /\ "warn_align" \notin Range(log)
        /\ args.text_align = <<76, 69, 70, 84, 9>> =>
              text_align = Left /\ "warn_align" \notin Range(log)

\* "justify": warned, two rows of a page both at anchorX, saved
C9_Witness ==
    /\ pc = "done"
    /\ args.text_align = <<106, 117, 115, 116, 105, 102, 121>>
    /\ "warn_align" \in Range(log)
    /\ "saved" \in Range(log)
    /\ \E k \in 0..(i - 1) : Len(RowsOfPage(k)) = 2
    /\ \A n \in DOMAIN rows : rows[n].x = insert_x

FatalTags == {"err_txt_missing", "err_txt_read", "err_pdf_open", "err_font"}

\* C10: once a fatal error before the page loop is logged, the run is over
\* with that message last and the document untouched: nothing placed, no
\* bookmarks set, no save; a missing text file ends the run before
\* fitz.open; save is called at most once, and only after set_toc, which
\* itself comes only after all min(len(lines), pageCount) pages are stamped.
C10_AbortOrComplete ==
    /\ (FatalTags \cap Range(log) # {}) =>
          /\ pc = "done"
          /\ Last(log) \in FatalTags
          /\ placed = <<>> /\ rows = <<>>
          /\ ~doc_toc.set
          /\ saves = 0
    /\ "err_txt_missing" \in Range(log) => opens = 0
    /\ saves <= 1
    /\ saves = 1 => doc_toc.set
    /\ doc_toc.set =>
          /\ i = PageCount
          /\ {rows[n].page : n \in DOMAIN rows} = 0..(PageCount - 1)
          /\ doc_toc.entries = toc

\* The wide font fails to load: the document was opened and is left as it was
C10_Witness ==
    /\ pc = "done"
    /\ "err_font" \in Range(log)
    /\ opens = 1
    /\ doc.open
    /\ Len(doc.pages) >= 1 /\ Len(lines) >= 1
    /\ placed = <<>>

============================================================================
